---- MODULE Spec2Model ----
(***************************************************************************)
(* Model of PRMarkdownGenerator (src/pr-generator.js): the triage          *)
(* classification of open pull requests and the rendering of the report.   *)
(*                                                                         *)
(* A pull request is a record; strings whose content the code inspects     *)
(* (logins, label names) are mapped to their characters by Chars, so that  *)
(* String.includes and String.toLowerCase are computed, not assumed.       *)
(***************************************************************************)
EXTENDS Integers, Sequences, FiniteSets, TLC

VARIABLES
  fetched,      \* the pull requests as fetchPullRequests returned them
  prs,          \* the same pull-request objects, as the calls have left them
  reviewOwner,  \* process.env.REVIEW_OWNER
  categories,   \* the object categorizePRs returned last
  facts,        \* the constants its callback computed, one record per pull request
  markdown,     \* the document generateMarkdown returned, as its lines
  pc,           \* "listing", "fetching", "threw", "ready", "sorted",
                \* "categorized", "categorizedTwice" or "rendered"
  api,          \* the open pull requests as the GitHub API serves them
  cursor,       \* fetchPullRequests' place in its detail loop
  failed        \* history: the detail requests that threw, by pull request

vars == <<fetched, prs, reviewOwner, categories, facts, markdown, pc, api, cursor, failed>>

(***************************************************************************)
(* Bounds of the model.                                                    *)
(***************************************************************************)
MaxReviews == 2
MaxComments == 5
MaxMixedComments == 3
MaxLabels == 2
MaxPRs == 2
MaxSortPRs == 3
MaxCreated == 2
MaxOrderPRs == 3

(***************************************************************************)
(* Strings.                                                                *)
(***************************************************************************)
UpperAlphabet ==
  <<"A","B","C","D","E","F","G","H","I","J","K","L","M",
    "N","O","P","Q","R","S","T","U","V","W","X","Y","Z">>

LowerAlphabet ==
  <<"a","b","c","d","e","f","g","h","i","j","k","l","m",
    "n","o","p","q","r","s","t","u","v","w","x","y","z">>

\* The characters of the strings the model uses.
Chars(s) ==
  CASE s = "alice"           -> <<"a","l","i","c","e">>
    [] s = "bob"             -> <<"b","o","b">>
    [] s = "carol"           -> <<"c","a","r","o","l">>
    [] s = "dave"            -> <<"d","a","v","e">>
    [] s = "robot"           -> <<"r","o","b","o","t">>
    [] s = "DependaBot"      -> <<"D","e","p","e","n","d","a","B","o","t">>
    [] s = "gitstream-cm"    -> <<"g","i","t","s","t","r","e","a","m","-","c","m">>
    [] s = "Copilot"         -> <<"C","o","p","i","l","o","t">>
    [] s = "bot"             -> <<"b","o","t">>
    [] s = "bug"             -> <<"b","u","g">>
    [] s = "URGENT-fix"      -> <<"U","R","G","E","N","T","-","f","i","x">>
    [] s = "urgen"           -> <<"u","r","g","e","n">>
    [] s = "High Priority"   -> <<"H","i","g","h"," ","P","r","i","o","r","i","t","y">>
    [] s = "high-priority"   -> <<"h","i","g","h","-","p","r","i","o","r","i","t","y">>
    [] s = "Priority : High" -> <<"P","r","i","o","r","i","t","y"," ",":"," ","H","i","g","h">>
    [] s = "priority: high"  -> <<"p","r","i","o","r","i","t","y",":"," ","h","i","g","h">>
    [] s = "not-critical"    -> <<"n","o","t","-","c","r","i","t","i","c","a","l">>
    [] s = "high priority"   -> <<"h","i","g","h"," ","p","r","i","o","r","i","t","y">>
    [] s = "priority : high" -> <<"p","r","i","o","r","i","t","y"," ",":"," ","h","i","g","h">>
    [] s = "urgent"          -> <<"u","r","g","e","n","t">>
    [] s = "critical"        -> <<"c","r","i","t","i","c","a","l">>

\* The lower-case letter of each upper-case letter.
LowerOf ==
  [c \in {UpperAlphabet[k] : k \in 1..Len(UpperAlphabet)} |->
     LowerAlphabet[CHOOSE k \in 1..Len(UpperAlphabet) : UpperAlphabet[k] = c]]

\* String.prototype.toLowerCase on one character.
LowerChar(c) == IF c \in DOMAIN LowerOf THEN LowerOf[c] ELSE c

\* String.prototype.toLowerCase.
toLowerCase(cs) == [i \in 1..Len(cs) |-> LowerChar(cs[i])]

\* String.prototype.includes: sub occurs in cs as a contiguous substring.
includes(cs, sub) ==
  \E i \in 0..(Len(cs) - Len(sub)) : SubSeq(cs, i + 1, i + Len(sub)) = sub

(***************************************************************************)
(* Helpers on sequences.                                                   *)
(***************************************************************************)
Range(s) == {s[i] : i \in 1..Len(s)}

SeqsUpTo(S, n) == UNION {[1..k -> S] : k \in 0..n}


(***************************************************************************)
(* Program constants.                                                      *)
(***************************************************************************)
\* An unset (or empty) REVIEW_OWNER environment variable.
NoOwner == ""

\* The comment count from which a commenter is prolific.
ProlificThreshold == 3

\* The label patterns of hasHighPriorityLabel, in the order they are tested.
PriorityPatterns ==
  <<"high priority", "high-priority", "priority : high", "urgent", "critical">>

CategoryNames ==
  <<"highPriority", "needOneMoreApproval", "needsProlificCommentersApproval",
    "requiresReview", "hasCommentsToFix", "needsMerging">>

\* const categories = { highPriority: [], ... }
EmptyCategories == [c \in Range(CategoryNames) |-> <<>>]

(***************************************************************************)
(* getApprovals.                                                           *)
(***************************************************************************)
\* new Date(submitted_at): the time value in milliseconds, of a timestamp
\* counted in seconds.
DateOf(t) == t * 1000

\* The comparator (a, b) => new Date(a.submitted_at) - new Date(b.submitted_at).
CompareReviews(a, b) == DateOf(a.submitted_at) - DateOf(b.submitted_at)

\* One step of the stable sort: r goes after every element that does not
\* compare greater than it.
InsertReview(sorted, r) ==
  LET k == Cardinality({i \in 1..Len(sorted) : CompareReviews(sorted[i], r) <= 0})
  IN  SubSeq(sorted, 1, k) \o <<r>> \o SubSeq(sorted, k + 1, Len(sorted))

\* SortReviews left out: the reviews are taken in the order of the list.
SortReviews_Unsorted(reviews) == reviews

RECURSIVE SortReviews_Unstable(_)
\* SortReviews by a sort that is not stable: a review goes before the reviews
\* that compare equal to it.
SortReviews_Unstable(reviews) ==
  IF reviews = <<>> THEN <<>>
  ELSE LET sorted == SortReviews_Unstable(SubSeq(reviews, 1, Len(reviews) - 1))
           r == reviews[Len(reviews)]
           k == Cardinality({i \in 1..Len(sorted) : CompareReviews(sorted[i], r) < 0})
       IN  SubSeq(sorted, 1, k) \o <<r>> \o SubSeq(sorted, k + 1, Len(sorted))

\* Array.prototype.sort with CompareReviews (stable); pr.reviews is sorted in
\* place, so this is also the value of pr.reviews after getApprovals.
RECURSIVE SortReviews(_)
SortReviews(reviews) ==
  IF reviews = <<>> THEN <<>>
  ELSE InsertReview(SortReviews(SubSeq(reviews, 1, Len(reviews) - 1)),
                    reviews[Len(reviews)])

\* MapSet that keeps the value of an existing key: first write wins.
MapSet_KeepFirst(m, k, v) ==
  IF \E i \in 1..Len(m) : m[i].key = k
    THEN m
    ELSE Append(m, [key |-> k, value |-> v])

\* Map.prototype.set on a Map kept as a sequence of [key, value] entries in
\* insertion order: an existing key keeps its position.
MapSet(m, k, v) ==
  IF \E i \in 1..Len(m) : m[i].key = k
    THEN [i \in 1..Len(m) |-> IF m[i].key = k THEN [key |-> k, value |-> v] ELSE m[i]]
    ELSE Append(m, [key |-> k, value |-> v])

MapHas(m, k) == \E i \in 1..Len(m) : m[i].key = k

MapGet(m, k) == m[CHOOSE i \in 1..Len(m) : m[i].key = k].value

RECURSIVE LatestReviewsByUser(_)
\* forEach(review => latestReviewsByUser.set(review.user.login, review))
LatestReviewsByUser(sorted) ==
  IF sorted = <<>> THEN <<>>
  ELSE LET r == sorted[Len(sorted)]
       IN  MapSet(LatestReviewsByUser(SubSeq(sorted, 1, Len(sorted) - 1)), r.user, r)

IsApproved(entry) == entry.value.state = "APPROVED"

\* The reviews getApprovals returns, in the Map's iteration order.
getApprovals(pr) ==
  LET latest == SelectSeq(LatestReviewsByUser(SortReviews(pr.reviews)), IsApproved)
  IN  [i \in 1..Len(latest) |-> latest[i].value]

\* The pull request after a call of getApprovals: pr.reviews sorted in place.
AfterGetApprovals(pr) == [pr EXCEPT !.reviews = SortReviews(pr.reviews)]

(***************************************************************************)
(* getAllComments.                                                         *)
(***************************************************************************)
\* IsHumanComment with the login lower-cased before the test for "bot".
IsHumanComment_IgnoreCase(comment) ==
  /\ ~includes(toLowerCase(Chars(comment.login)), Chars("bot"))
  /\ comment.login # "gitstream-cm"
  /\ comment.type # "Bot"

\* The filter predicate of getAllComments.
IsHumanComment(comment) ==
  /\ ~includes(Chars(comment.login), Chars("bot"))
  /\ comment.login # "gitstream-cm"
  /\ comment.type # "Bot"

getAllComments(pr) ==
  SelectSeq(pr.reviewComments \o pr.issueComments, IsHumanComment)

(***************************************************************************)
(* Commenter analysis.                                                     *)
(***************************************************************************)
RECURSIVE CommentCounts(_)
\* commentCounts.set(user, (commentCounts.get(user) || 0) + 1) for each comment.
CommentCounts(comments) ==
  IF comments = <<>> THEN <<>>
  ELSE LET m == CommentCounts(SubSeq(comments, 1, Len(comments) - 1))
           user == comments[Len(comments)].login
       IN  MapSet(m, user, (IF MapHas(m, user) THEN MapGet(m, user) ELSE 0) + 1)

\* new Set(approvals.map(approval => approval.user.login))
ApprovedUsers(pr) == {a.user : a \in Range(getApprovals(pr))}

\* new Set of the logins of pr.requested_reviewers.
RequestedReviewers(pr) == pr.requested_reviewers

\* getProlificCommentersWithoutApproval without the test user !== prOwner.
getProlificCommentersWithoutApproval_WithOwner(pr) ==
  LET counts == CommentCounts(getAllComments(pr))
      approvedUsers == ApprovedUsers(pr)
      Keep(e) == /\ e.value >= ProlificThreshold
                 /\ e.key \notin approvedUsers
      kept == SelectSeq(counts, Keep)
  IN  [i \in 1..Len(kept) |-> kept[i].key]

getProlificCommentersWithoutApproval(pr) ==
  LET counts == CommentCounts(getAllComments(pr))
      approvedUsers == ApprovedUsers(pr)
      prOwner == pr.user
      Keep(e) == /\ e.value >= ProlificThreshold
                 /\ e.key \notin approvedUsers
                 /\ e.key # prOwner
      kept == SelectSeq(counts, Keep)
  IN  [i \in 1..Len(kept) |-> kept[i].key]

\* getProlificCommentersReRequested without the test !approvedUsers.has(user).
getProlificCommentersReRequested_Approved(pr) ==
  LET counts == CommentCounts(getAllComments(pr))
      prOwner == pr.user
      requestedReviewers == RequestedReviewers(pr)
      Keep(e) == /\ e.value >= ProlificThreshold
                 /\ e.key \in requestedReviewers
                 /\ e.key # prOwner
      kept == SelectSeq(counts, Keep)
  IN  [i \in 1..Len(kept) |-> kept[i].key]

getProlificCommentersReRequested(pr) ==
  LET counts == CommentCounts(getAllComments(pr))
      approvedUsers == ApprovedUsers(pr)
      prOwner == pr.user
      requestedReviewers == RequestedReviewers(pr)
      Keep(e) == /\ e.value >= ProlificThreshold
                 /\ e.key \in requestedReviewers
                 /\ e.key \notin approvedUsers
                 /\ e.key # prOwner
      kept == SelectSeq(counts, Keep)
  IN  [i \in 1..Len(kept) |-> kept[i].key]

\* hasCommentsToFix counting whoever has submitted a review as if requested:
\* a commenter who reviewed leaves no comments to fix.
hasCommentsToFix_ReviewersExcused(pr) ==
  LET comments == getAllComments(pr)
      commenters == {comments[i].login : i \in {j \in 1..Len(comments) :
                                                  comments[j].login # pr.user}}
      requestedReviewers ==
        RequestedReviewers(pr) \cup {pr.reviews[k].user : k \in 1..Len(pr.reviews)}
  IN  IF Len(comments) = 0 THEN FALSE
      ELSE IF Cardinality(commenters) = 0 THEN FALSE
      ELSE \E commenter \in commenters : commenter \notin requestedReviewers

\* hasCommentsToFix as any human comment at all.
hasCommentsToFix_AnyComment(pr) == Len(getAllComments(pr)) > 0

hasCommentsToFix(pr) ==
  LET comments == getAllComments(pr)
      commenters == {comments[i].login : i \in {j \in 1..Len(comments) :
                                                  comments[j].login # pr.user}}
      requestedReviewers == RequestedReviewers(pr)
  IN  IF Len(comments) = 0 THEN FALSE
      ELSE IF Cardinality(commenters) = 0 THEN FALSE
      ELSE \E commenter \in commenters : commenter \notin requestedReviewers

\* hasReviewOwnerApproval that never finds the owner among the approvals.
hasReviewOwnerApproval_Never(pr, owner) == FALSE

hasReviewOwnerApproval(pr, owner) ==
  IF owner = NoOwner THEN FALSE
  ELSE \E a \in Range(getApprovals(pr)) : a.user = owner

\* IsPriorityLabel without toLowerCase.
IsPriorityLabel_CaseSensitive(name) ==
  \E k \in 1..Len(PriorityPatterns) :
    includes(Chars(name), Chars(PriorityPatterns[k]))

\* label => label.name.toLowerCase().includes(p) for one of the patterns.
IsPriorityLabel(name) ==
  \E k \in 1..Len(PriorityPatterns) :
    includes(toLowerCase(Chars(name)), Chars(PriorityPatterns[k]))

hasHighPriorityLabel(pr) ==
  \E i \in 1..Len(pr.labels) : IsPriorityLabel(pr.labels[i])

(***************************************************************************)
(* categorizePRs.                                                          *)
(***************************************************************************)
\* The constants the forEach callback of categorizePRs computes for one pull
\* request.  The first call of getApprovals has sorted pr.reviews, and the
\* later helpers read the pull request as that call left it.
Locals(pr, owner) ==
  LET approvals == getApprovals(pr)
      p == AfterGetApprovals(pr)
  IN  [number |-> pr.number,
       approvals |-> approvals,
       approvalCount |-> Len(approvals),
       prolificCommentersReRequested |-> getProlificCommentersReRequested(p),
       prolificCommentersWithoutApproval |-> getProlificCommentersWithoutApproval(p),
       hasCommentsToFixFlag |-> hasCommentsToFix(p),
       hasReviewOwnerApproval |-> hasReviewOwnerApproval(p, owner),
       isHighPriority |-> hasHighPriorityLabel(p)]

\* CategoryOf with the prolific-commenter branch tested before the
\* comments-to-fix branch.
CategoryOf_ProlificFirst(l) ==
  IF l.isHighPriority THEN "highPriority"
  ELSE IF Len(l.prolificCommentersReRequested) > 0 THEN "needsProlificCommentersApproval"
  ELSE IF Len(l.prolificCommentersWithoutApproval) > 0 THEN "needsProlificCommentersApproval"
  ELSE IF l.hasCommentsToFixFlag THEN "hasCommentsToFix"
  ELSE IF l.approvalCount >= 2 /\ ~l.hasCommentsToFixFlag /\ ~l.hasReviewOwnerApproval
    THEN "needsMerging"
  ELSE IF l.approvalCount = 1 THEN "needOneMoreApproval"
  ELSE IF l.approvalCount = 0 THEN "requiresReview"
  ELSE "none"

\* CategoryOf with a final else in place of the test approvalCount === 0.
CategoryOf_CatchAll(l) ==
  IF l.isHighPriority THEN "highPriority"
  ELSE IF Len(l.prolificCommentersReRequested) > 0 THEN "needsProlificCommentersApproval"
  ELSE IF l.hasCommentsToFixFlag THEN "hasCommentsToFix"
  ELSE IF l.approvalCount >= 2 /\ ~l.hasCommentsToFixFlag /\ ~l.hasReviewOwnerApproval
    THEN "needsMerging"
  ELSE IF Len(l.prolificCommentersWithoutApproval) > 0 THEN "needsProlificCommentersApproval"
  ELSE IF l.approvalCount = 1 THEN "needOneMoreApproval"
  ELSE "requiresReview"

\* CategoryOf with the merge branch not testing the review owner's approval.
CategoryOf_OwnerIgnored(l) ==
  IF l.isHighPriority THEN "highPriority"
  ELSE IF Len(l.prolificCommentersReRequested) > 0 THEN "needsProlificCommentersApproval"
  ELSE IF l.hasCommentsToFixFlag THEN "hasCommentsToFix"
  ELSE IF l.approvalCount >= 2 /\ ~l.hasCommentsToFixFlag THEN "needsMerging"
  ELSE IF Len(l.prolificCommentersWithoutApproval) > 0 THEN "needsProlificCommentersApproval"
  ELSE IF l.approvalCount = 1 THEN "needOneMoreApproval"
  ELSE IF l.approvalCount = 0 THEN "requiresReview"
  ELSE "none"

\* The if / else-if chain of the callback: the category the pull request is
\* pushed to, or "none" when no branch is taken.
CategoryOf(l) ==
  IF l.isHighPriority THEN "highPriority"
  ELSE IF Len(l.prolificCommentersReRequested) > 0 THEN "needsProlificCommentersApproval"
  ELSE IF l.hasCommentsToFixFlag THEN "hasCommentsToFix"
  ELSE IF l.approvalCount >= 2 /\ ~l.hasCommentsToFixFlag /\ ~l.hasReviewOwnerApproval
    THEN "needsMerging"
  ELSE IF Len(l.prolificCommentersWithoutApproval) > 0 THEN "needsProlificCommentersApproval"
  ELSE IF l.approvalCount = 1 THEN "needOneMoreApproval"
  ELSE IF l.approvalCount = 0 THEN "requiresReview"
  ELSE "none"

\* Push with unshift in place of push: the pull request goes to the front.
Push_Front(cats, name, pr) ==
  IF name = "none" THEN cats ELSE [cats EXCEPT ![name] = <<pr.number>> \o @]

\* categories.<name>.push(pr): the lists hold references to the pull requests,
\* kept here as their numbers.
Push(cats, name, pr) ==
  IF name = "none" THEN cats ELSE [cats EXCEPT ![name] = Append(@, pr.number)]

RECURSIVE PushAll_NoElse(_, _)
\* PushAll with the high-priority branch an if of its own: the chain goes on
\* after the push to highPriority.
PushAll_NoElse(list, locals) ==
  IF list = <<>> THEN EmptyCategories
  ELSE LET n == Len(list)
           rest == PushAll_NoElse(SubSeq(list, 1, n - 1), SubSeq(locals, 1, n - 1))
           first == IF locals[n].isHighPriority
                      THEN Push(rest, "highPriority", list[n]) ELSE rest
       IN  Push(first, CategoryOf([locals[n] EXCEPT !.isHighPriority = FALSE]), list[n])

\* The pushes of the forEach, in input order, given each callback's constants.
RECURSIVE PushAll(_, _)
PushAll(list, locals) ==
  IF list = <<>> THEN EmptyCategories
  ELSE LET n == Len(list)
       IN  Push(PushAll(SubSeq(list, 1, n - 1), SubSeq(locals, 1, n - 1)),
                CategoryOf(locals[n]), list[n])

\* The pull requests after categorizePRs: every pr.reviews sorted in place.
AfterCategorize(list) == [i \in 1..Len(list) |-> AfterGetApprovals(list[i])]

\* The callback's constants, one record per pull request, in input order.
FactsOf(list, owner) == [i \in 1..Len(list) |-> Locals(list[i], owner)]

\* prs.forEach(pr => { ... }) from the empty categories: the returned object.
categorizePRs(list, owner) == PushAll(list, FactsOf(list, owner))

(***************************************************************************)
(* fetchPullRequests.                                                      *)
(***************************************************************************)
\* The three detail requests of the loop body, in the order it makes them.
DetailSteps == <<"reviews", "reviewComments", "issueComments">>

\* The detail loop's place before the loop starts and after it has ended.
NoCursor == [i |-> 0, step |-> "done"]

\* What the API serves for pull request number n.
ApiPull(n) == api[CHOOSE k \in 1..Len(api) : api[k].number = n]

\* A pull request as an element of the response of GET .../pulls: without
\* the properties reviews, reviewComments and issueComments.
Summary(p) ==
  [number |-> p.number, draft |-> p.draft, user |-> p.user, labels |-> p.labels,
   requested_reviewers |-> p.requested_reviewers, requested_teams |-> p.requested_teams]

IsReadyForReview(p) == ~p.draft

\* pr.<step> = response.data
AssignDetail(pr, step) ==
  CASE step = "reviews" -> [reviews |-> ApiPull(pr.number).reviews] @@ pr
    [] step = "reviewComments" -> [reviewComments |-> ApiPull(pr.number).reviewComments] @@ pr
    [] step = "issueComments" -> [issueComments |-> ApiPull(pr.number).issueComments] @@ pr

\* CatchDetail setting only the properties the pull request does not have yet.
CatchDetail_KeepFetched(pr) ==
  pr @@ [reviews |-> <<>>, reviewComments |-> <<>>, issueComments |-> <<>>]

\* The catch block of the loop body: all three properties become [].
CatchDetail(pr) ==
  [reviews |-> <<>>, reviewComments |-> <<>>, issueComments |-> <<>>] @@ pr

\* The step after step k of pull request i: the next request, or the first
\* request of the next pull request.
AfterStep(i, k) ==
  IF k < Len(DetailSteps) THEN [i |-> i, step |-> DetailSteps[k + 1]]
  ELSE [i |-> i + 1, step |-> DetailSteps[1]]

\* One detail request of the loop body for the pull request at the cursor:
\* it answers and the property is assigned, or it throws and the catch block
\* runs, after which the loop goes on with the next pull request.
Request(k) ==
  /\ pc = "fetching"
  /\ cursor.i <= Len(prs)
  /\ cursor.step = DetailSteps[k]
  /\ \/ /\ prs' = [prs EXCEPT ![cursor.i] = AssignDetail(@, DetailSteps[k])]
        /\ cursor' = AfterStep(cursor.i, k)
        /\ UNCHANGED failed
     \/ /\ prs' = [prs EXCEPT ![cursor.i] = CatchDetail(@)]
        /\ cursor' = [i |-> cursor.i + 1, step |-> DetailSteps[1]]
        /\ failed' = failed \cup {[pr |-> prs[cursor.i].number, request |-> DetailSteps[k]]}
  /\ UNCHANGED <<fetched, reviewOwner, categories, facts, markdown, pc, api>>

(***************************************************************************)
(* sortPRsByPriority.                                                      *)
(***************************************************************************)
\* ComparePRs with the dates subtracted the other way round: oldest first.
ComparePRs_OldestFirst(a, b) ==
  LET aHighPriority == hasHighPriorityLabel(a)
      bHighPriority == hasHighPriorityLabel(b)
  IN  IF aHighPriority /\ ~bHighPriority THEN -1
      ELSE IF ~aHighPriority /\ bHighPriority THEN 1
      ELSE DateOf(a.created_at) - DateOf(b.created_at)

\* The comparator of sortPRsByPriority.
ComparePRs(a, b) ==
  LET aHighPriority == hasHighPriorityLabel(a)
      bHighPriority == hasHighPriorityLabel(b)
  IN  IF aHighPriority /\ ~bHighPriority THEN -1
      ELSE IF ~aHighPriority /\ bHighPriority THEN 1
      ELSE DateOf(b.created_at) - DateOf(a.created_at)

\* One step of the stable sort: pr goes after every element that does not
\* compare greater than it.
InsertPR(sorted, pr) ==
  LET k == Cardinality({i \in 1..Len(sorted) : ComparePRs(sorted[i], pr) <= 0})
  IN  SubSeq(sorted, 1, k) \o <<pr>> \o SubSeq(sorted, k + 1, Len(sorted))

\* prs.sort(comparator): Array.prototype.sort (stable), in place; the sorted
\* array is also the value returned.
RECURSIVE sortPRsByPriority(_)
sortPRsByPriority(list) ==
  IF list = <<>> THEN <<>>
  ELSE InsertPR(sortPRsByPriority(SubSeq(list, 1, Len(list) - 1)), list[Len(list)])

(***************************************************************************)
(* generateMarkdown.  The document is the sequence of its lines.           *)
(***************************************************************************)
Line(kind, section, number, status, count, names) ==
  [kind |-> kind, section |-> section, pr |-> number,
   status |-> status, count |-> count, names |-> names]

PRByNumber(list, n) == list[CHOOSE i \in 1..Len(list) : list[i].number = n]

\* The bullet of one pull request in the section of category name.
Bullet(name, pr) ==
  LET approvals == getApprovals(pr)
      approvalCount == Len(approvals)
      reRequested == getProlificCommentersReRequested(pr)
      withoutApproval == getProlificCommentersWithoutApproval(pr)
      commentCount == Len(getAllComments(pr))
  IN  CASE name = "highPriority" ->
             Line("bullet", name, pr.number,
                  IF approvalCount = 0 THEN "needs review"
                  ELSE IF approvalCount = 1 THEN "needs one more approval"
                  ELSE "ready to merge", 0, <<>>)
        [] name = "needOneMoreApproval" ->
             Line("bullet", name, pr.number, "approved by", 0,
                  IF Len(approvals) > 0 THEN <<approvals[1].user>> ELSE <<"unknown">>)
        [] name = "needsProlificCommentersApproval" ->
             IF Len(reRequested) > 0
               THEN Line("bullet", name, pr.number, "re-requested", 0, reRequested)
             ELSE IF Len(withoutApproval) > 0
               THEN Line("bullet", name, pr.number, "waiting for", 0, withoutApproval)
             ELSE Line("bullet", name, pr.number, "", 0, <<>>)
        [] name = "requiresReview" ->
             Line("bullet", name, pr.number, "", 0, <<>>)
        [] name = "hasCommentsToFix" ->
             Line("bullet", name, pr.number,
                  IF commentCount # 1 THEN "comments" ELSE "comment", commentCount, <<>>)
        [] name = "needsMerging" ->
             Line("bullet", name, pr.number, "approvals", approvalCount, <<>>)

\* Section without the test of the list's length: the heading of an empty
\* category is written too.
Section_NoGuard(list, cats, name) ==
  <<Line("heading", name, 0, "", 0, <<>>)>>
  \o [i \in 1..Len(cats[name]) |-> Bullet(name, PRByNumber(list, cats[name][i]))]
  \o <<Line("blank", name, 0, "", 0, <<>>)>>

\* if (categories.<name>.length > 0) { heading, one bullet per member, blank }
Section(list, cats, name) ==
  IF Len(cats[name]) > 0
    THEN <<Line("heading", name, 0, "", 0, <<>>)>>
         \o [i \in 1..Len(cats[name]) |-> Bullet(name, PRByNumber(list, cats[name][i]))]
         \o <<Line("blank", name, 0, "", 0, <<>>)>>
    ELSE <<>>

\* generateMarkdown writing the fallback line when no category has a member.
generateMarkdown_FallbackWhenNoSection(list, cats) ==
  <<Line("title", "", 0, "", 0, <<>>),
    Line("generated", "", 0, "", 0, <<>>),
    Line("total", "", 0, "", Len(list), <<>>)>>
  \o Section(list, cats, "highPriority")
  \o Section(list, cats, "needOneMoreApproval")
  \o Section(list, cats, "needsProlificCommentersApproval")
  \o Section(list, cats, "requiresReview")
  \o Section(list, cats, "hasCommentsToFix")
  \o Section(list, cats, "needsMerging")
  \o (IF cats = EmptyCategories THEN <<Line("fallback", "", 0, "", 0, <<>>)>> ELSE <<>>)

\* The document generateMarkdown builds from the categories, for the pull
\* requests as categorizePRs left them.
generateMarkdown(list, cats) ==
  <<Line("title", "", 0, "", 0, <<>>),
    Line("generated", "", 0, "", 0, <<>>),
    Line("total", "", 0, "", Len(list), <<>>)>>
  \o Section(list, cats, "highPriority")
  \o Section(list, cats, "needOneMoreApproval")
  \o Section(list, cats, "needsProlificCommentersApproval")
  \o Section(list, cats, "requiresReview")
  \o Section(list, cats, "hasCommentsToFix")
  \o Section(list, cats, "needsMerging")
  \o (IF Len(list) = 0 THEN <<Line("fallback", "", 0, "", 0, <<>>)>> ELSE <<>>)

(***************************************************************************)
(* Operations.                                                             *)
(***************************************************************************)
\* A call of categorizePRs(prs): on the fetched pull requests, or once more on
\* the same objects as the first call left them.  Each call builds its
\* categories object anew.
CategorizePRs ==
  /\ pc \in {"ready", "categorized"}
  /\ facts' = FactsOf(prs, reviewOwner)
  /\ categories' = PushAll(prs, facts')
  /\ prs' = AfterCategorize(prs)
  /\ pc' = IF pc = "ready" THEN "categorized" ELSE "categorizedTwice"
  /\ UNCHANGED <<fetched, reviewOwner, markdown, api, cursor, failed>>

\* A call of generateMarkdown(prs, owner, repo): it categorizes, then renders
\* each category's section.
GenerateMarkdown ==
  /\ pc = "ready"
  /\ facts' = FactsOf(prs, reviewOwner)
  /\ categories' = PushAll(prs, facts')
  /\ prs' = AfterCategorize(prs)
  /\ markdown' = generateMarkdown(prs', categories')
  /\ pc' = "rendered"
  /\ UNCHANGED <<fetched, reviewOwner, api, cursor, failed>>

Next == CategorizePRs \/ GenerateMarkdown

\* The request for the open pull requests (one page: fewer than per_page
\* pull requests).  It answers, and the drafts are filtered out; or it throws,
\* and the outer catch rethrows.
ListPullRequests ==
  /\ pc = "listing"
  /\ \/ /\ prs' = SelectSeq([k \in 1..Len(api) |-> Summary(api[k])], IsReadyForReview)
        /\ cursor' = [i |-> 1, step |-> DetailSteps[1]]
        /\ pc' = "fetching"
     \/ /\ pc' = "threw"
        /\ UNCHANGED <<prs, cursor>>
  /\ UNCHANGED <<fetched, reviewOwner, categories, facts, markdown, api, failed>>

FetchReviews == Request(1)

FetchReviewComments == Request(2)

FetchIssueComments == Request(3)

\* return allPRs, after the loop.
ReturnPRs ==
  /\ pc = "fetching"
  /\ cursor.i > Len(prs)
  /\ fetched' = prs
  /\ cursor' = NoCursor
  /\ pc' = "ready"
  /\ UNCHANGED <<prs, reviewOwner, categories, facts, markdown, api, failed>>

\* generatePRMarkdown: fetchPullRequests, then generateMarkdown.
NextFetch ==
  \/ ListPullRequests
  \/ FetchReviews
  \/ FetchReviewComments
  \/ FetchIssueComments
  \/ ReturnPRs
  \/ GenerateMarkdown

\* A call of sortPRsByPriority(prs) on the fetched pull requests.
SortPRsByPriority ==
  /\ pc = "ready"
  /\ prs' = sortPRsByPriority(prs)
  /\ pc' = "sorted"
  /\ UNCHANGED <<fetched, reviewOwner, categories, facts, markdown, api, cursor, failed>>

\* The operations on pull requests that carry their creation timestamps.
NextSort == SortPRsByPriority \/ CategorizePRs \/ GenerateMarkdown

(***************************************************************************)
(* Inputs: the pull requests as fetchPullRequests hands them over.         *)
(***************************************************************************)
Review(user, state, t) == [user |-> user, state |-> state, submitted_at |-> t]

\* A comment's user: its login and its type.
Comment(login) ==
  [login |-> login, type |-> IF login = "Copilot" THEN "Bot" ELSE "User"]

PullRequest(number, user, labels, requested, teams, reviews, rc, ic) ==
  [number |-> number, user |-> user, labels |-> labels,
   requested_reviewers |-> requested, requested_teams |-> teams,
   reviews |-> reviews, reviewComments |-> rc, issueComments |-> ic]

\* Review lists in the order the API returns them: oldest first, one second apart.
Chronological(users, states, n) ==
  {[i \in 1..Len(us) |-> Review(us[i][1], us[i][2], i)] :
     us \in SeqsUpTo(users \X states, n)}

\* n comments of one login.
CommentsOf(login, n) == [i \in 1..n |-> Comment(login)]

\* Every way to attach at most n comments by the given logins to the two
\* comment lists of a pull request.
CommentLists(logins, n) ==
  {<<[i \in 1..Len(rc) |-> Comment(rc[i])], [i \in 1..Len(ic) |-> Comment(ic[i])]>> :
     <<rc, ic>> \in {p \in SeqsUpTo(logins, n) \X SeqsUpTo(logins, n) :
                       Len(p[1]) + Len(p[2]) <= n}}

InitCommon ==
  /\ fetched = prs
  /\ api = <<>>
  /\ cursor = NoCursor
  /\ failed = {}
  /\ categories = EmptyCategories
  /\ facts = <<>>
  /\ markdown = <<>>
  /\ pc = "ready"

\* One pull request by carol: any short review history of alice and bob, any
\* number of review comments of bob and of issue comments of dave, either of
\* them requested or not; the review owner is unset, a reviewer (alice) or
\* someone who has not reviewed (dave).
Init ==
  /\ reviewOwner \in {NoOwner, "alice", "dave"}
  /\ \E labels \in {<<"bug">>, <<"URGENT-fix">>},
        requested \in SUBSET {"bob", "dave"},
        reviews \in Chronological({"alice", "bob"}, {"APPROVED", "CHANGES_REQUESTED"},
                                  MaxReviews),
        nb \in 0..MaxComments, nd \in 0..MaxComments :
       /\ nb + nd <= MaxComments
       /\ prs = <<PullRequest(1, "carol", labels, requested, {}, reviews,
                              CommentsOf("bob", nb), CommentsOf("dave", nd))>>
  /\ InitCommon

Spec == Init /\ [][Next]_vars

\* One pull request with any short review history of alice and bob, in any
\* order in pr.reviews, with any of three timestamps (ties included).
InitReviews ==
  /\ reviewOwner \in {NoOwner, "alice"}
  /\ \E reviews \in SeqsUpTo({Review(u, st, t) :
                                u \in {"alice", "bob"},
                                st \in {"APPROVED", "CHANGES_REQUESTED", "COMMENTED"},
                                t \in 1..3}, MaxReviews) :
       prs = <<PullRequest(1, "carol", <<>>, {}, {}, reviews, <<>>, <<>>)>>
  /\ InitCommon

SpecReviews == InitReviews /\ [][Next]_vars

\* The logins that comment: people, and the automation accounts the filter of
\* getAllComments knows in its three ways.
CommentLogins ==
  {"bob", "carol", "dave", "robot", "DependaBot", "gitstream-cm", "Copilot"}

\* One pull request with any few comments of any of the commenting logins.
InitFilter ==
  /\ reviewOwner = NoOwner
  /\ \E cs \in CommentLists(CommentLogins, MaxMixedComments) :
       prs = <<PullRequest(1, "carol", <<>>, {}, {}, <<>>, cs[1], cs[2])>>
  /\ InitCommon

SpecFilter == InitFilter /\ [][Next]_vars

\* One pull request by carol with comments of the author, of bob, and of two
\* accounts with "bot" in their names; bob may have reviewed, and bob,
\* DependaBot and a team may be requested.
InitComments ==
  /\ reviewOwner = NoOwner
  /\ \E requested \in SUBSET {"bob", "DependaBot"},
        teams \in {{}, {"reviewers"}},
        reviews \in Chronological({"bob"}, {"APPROVED", "CHANGES_REQUESTED"}, 1),
        cs \in CommentLists({"bob", "carol", "robot", "DependaBot"}, MaxMixedComments) :
       prs = <<PullRequest(1, "carol", <<>>, requested, teams, reviews, cs[1], cs[2])>>
  /\ InitCommon

SpecComments == InitComments /\ [][Next]_vars

LabelNames ==
  {"bug", "URGENT-fix", "urgen", "High Priority", "high-priority",
   "Priority : High", "priority: high", "not-critical"}

\* One pull request with any few labels, in several review and comment states.
InitLabels ==
  /\ reviewOwner \in {NoOwner, "alice"}
  /\ \E labels \in SeqsUpTo(LabelNames, MaxLabels),
        requested \in {{}, {"dave"}},
        reviews \in Chronological({"alice", "bob"}, {"APPROVED"}, 2),
        ic \in {<<>>, CommentsOf("dave", ProlificThreshold)} :
       prs = <<PullRequest(1, "carol", labels, requested, {}, reviews, <<>>, ic)>>
  /\ InitCommon

SpecLabels == InitLabels /\ [][Next]_vars

\* Pull requests in the review and comment states the categories distinguish.
SamplePRs ==
  {PullRequest(0, "carol", labels, requested, {}, reviews, <<>>, ic) :
     labels \in {<<"bug">>, <<"URGENT-fix">>},
     reviews \in {<<>>, <<Review("alice", "APPROVED", 1)>>,
                  <<Review("alice", "APPROVED", 1), Review("bob", "APPROVED", 2)>>},
     requested \in {{}, {"dave"}},
     ic \in {<<>>, CommentsOf("dave", 1), CommentsOf("dave", ProlificThreshold)}}

\* A list of pull requests, numbered in the order they were fetched.
InitList ==
  /\ reviewOwner \in {NoOwner, "alice"}
  /\ \E list \in SeqsUpTo(SamplePRs, MaxPRs) :
       prs = [i \in 1..Len(list) |-> [list[i] EXCEPT !.number = i]]
  /\ InitCommon

SpecList == InitList /\ [][Next]_vars

\* One pull request for each way through the cascade: urgent; not reviewed;
\* approved once; approved twice; with a prolific commenter who is requested
\* again; with a comment of someone who is not requested.
OnePerCategory ==
  {PullRequest(0, "carol", <<"URGENT-fix">>, {}, {}, <<>>, <<>>, <<>>),
   PullRequest(0, "carol", <<"bug">>, {}, {}, <<>>, <<>>, <<>>),
   PullRequest(0, "carol", <<"bug">>, {}, {}, <<Review("alice", "APPROVED", 1)>>, <<>>, <<>>),
   PullRequest(0, "carol", <<"bug">>, {}, {},
               <<Review("alice", "APPROVED", 1), Review("bob", "APPROVED", 2)>>, <<>>, <<>>),
   PullRequest(0, "carol", <<"bug">>, {"dave"}, {}, <<>>, <<>>,
               CommentsOf("dave", ProlificThreshold)),
   PullRequest(0, "carol", <<"bug">>, {}, {}, <<>>, CommentsOf("dave", 1), <<>>)}

\* A list of such pull requests in any order, repetitions included, numbered
\* in the order they were fetched.
InitOrder ==
  /\ reviewOwner \in {NoOwner, "alice"}
  /\ \E list \in SeqsUpTo(OnePerCategory, MaxOrderPRs) :
       prs = [i \in 1..Len(list) |-> [list[i] EXCEPT !.number = i]]
  /\ InitCommon

SpecOrder == InitOrder /\ [][Next]_vars

\* Pull requests with a creation timestamp, with or without a priority label,
\* not reviewed or approved by alice and bob.
DatedPRs ==
  {[created_at |-> t] @@ PullRequest(0, "carol", labels, {}, {}, reviews, <<>>, <<>>) :
     t \in 1..MaxCreated,
     labels \in {<<"bug">>, <<"URGENT-fix">>},
     reviews \in {<<>>, <<Review("alice", "APPROVED", 1), Review("bob", "APPROVED", 2)>>}}

\* A list of dated pull requests in any order, numbered in the order they
\* were fetched.
InitSort ==
  /\ reviewOwner \in {NoOwner, "alice"}
  /\ \E list \in SeqsUpTo(DatedPRs, MaxSortPRs) :
       prs = [i \in 1..Len(list) |-> [list[i] EXCEPT !.number = i]]
  /\ InitCommon

SpecSort == InitSort /\ [][NextSort]_vars

\* Open pull requests as the API serves them: drafts or not, with a review
\* or without, with a review comment and an issue comment or without.
ApiPulls ==
  {[draft |-> draft] @@ PullRequest(0, "carol", <<"bug">>, {}, {}, reviews, cs[1], cs[2]) :
     draft \in BOOLEAN,
     reviews \in {<<>>, <<Review("alice", "APPROVED", 1)>>},
     cs \in {<< <<>>, <<>> >>, <<CommentsOf("bob", 1), CommentsOf("dave", 1)>>}}

\* fetchPullRequests is called on a repository with a few open pull requests.
InitFetch ==
  /\ reviewOwner = NoOwner
  /\ \E list \in SeqsUpTo(ApiPulls, MaxPRs) :
       api = [i \in 1..Len(list) |-> [list[i] EXCEPT !.number = i]]
  /\ prs = <<>>
  /\ fetched = <<>>
  /\ cursor = NoCursor
  /\ failed = {}
  /\ categories = EmptyCategories
  /\ facts = <<>>
  /\ markdown = <<>>
  /\ pc = "listing"

SpecFetch == InitFetch /\ [][NextFetch]_vars

(***************************************************************************)
(* Properties.                                                             *)
(***************************************************************************)
Categorized == pc \in {"categorized", "categorizedTwice", "rendered"}

\* How often pull request n occurs in the list of category c.
Occurrences(c, n) == Cardinality({k \in 1..Len(categories[c]) : categories[c][k] = n})

\* The categories whose lists hold pull request n.
CategoriesOf(n) == {c \in Range(CategoryNames) : Occurrences(c, n) > 0}

\* Whether rule k of the cascade matches a pull request with constants l.
RuleMatches(k, l) ==
  CASE k = 1 -> l.isHighPriority
    [] k = 2 -> l.prolificCommentersReRequested # <<>>
    [] k = 3 -> l.hasCommentsToFixFlag
    [] k = 4 -> l.approvalCount >= 2 /\ ~l.hasCommentsToFixFlag /\ ~l.hasReviewOwnerApproval
    [] k = 5 -> l.prolificCommentersWithoutApproval # <<>>
    [] k = 6 -> l.approvalCount = 1
    [] k = 7 -> l.approvalCount = 0

\* The category each rule assigns.
RuleCategory ==
  <<"highPriority", "needsProlificCommentersApproval", "hasCommentsToFix",
    "needsMerging", "needsProlificCommentersApproval", "needOneMoreApproval",
    "requiresReview">>

MatchingRules(l) == {k \in 1..Len(RuleCategory) : RuleMatches(k, l)}

FirstMatchingRule(l) ==
  CHOOSE k \in MatchingRules(l) : \A j \in MatchingRules(l) : k <= j

\* C1: after categorizePRs, every pull request is in exactly the list of the
\* first rule of the seven-rule cascade that matches it, and in no list when
\* no rule matches; a later matching rule never decides.
C1_FirstMatchingRuleWins ==
  Categorized =>
    \A i \in 1..Len(prs) :
      CategoriesOf(prs[i].number) =
        IF MatchingRules(facts[i]) = {} THEN {}
        ELSE {RuleCategory[FirstMatchingRule(facts[i])]}

\* C1 witness: five comments of bob, who is not requested, and no approval on
\* carol's pull request: rules 3, 5 and 7 all match, and the pull request is
\* in hasCommentsToFix.
C1_Witness ==
  /\ pc = "categorized"
  /\ prs[1].reviewComments = CommentsOf("bob", 5)
  /\ prs[1].issueComments = <<>>
  /\ "bob" \notin prs[1].requested_reviewers
  /\ MatchingRules(facts[1]) = {3, 5, 7}
  /\ CategoriesOf(prs[1].number) = {"hasCommentsToFix"}

\* C2: after categorizePRs, every input pull request occurs at most once in
\* all six category lists together.
C2_MutuallyExclusive ==
  Categorized =>
    \A i \in 1..Len(prs) :
      /\ Cardinality(CategoriesOf(prs[i].number)) <= 1
      /\ \A c \in Range(CategoryNames) : Occurrences(c, prs[i].number) <= 1

\* C2 witness: two pull requests were categorized, a high-priority one that
\* also has comments to fix, and one in another list.
C2_Witness ==
  /\ pc = "categorized"
  /\ Len(prs) = 2
  /\ facts[1].isHighPriority /\ facts[1].hasCommentsToFixFlag
  /\ CategoriesOf(prs[1].number) = {"highPriority"}
  /\ CategoriesOf(prs[2].number) = {"needsMerging"}

\* Two characters are equal up to the case of a letter.
SameLetter(a, b) ==
  \/ a = b
  \/ \E k \in 1..Len(UpperAlphabet) : {a, b} = {UpperAlphabet[k], LowerAlphabet[k]}

\* The pattern occurs in the name at some offset, case-insensitively.
ContainsIgnoringCase(name, pattern) ==
  \E off \in 0..(Len(name) - Len(pattern)) :
    \A j \in 1..Len(pattern) : SameLetter(name[off + j], pattern[j])

\* The pull request has a label the claim calls high priority.
HasPriorityLabelAsClaimed(pr) ==
  \E i \in 1..Len(pr.labels) :
    \E pattern \in {"high priority", "high-priority", "priority : high",
                    "urgent", "critical"} :
      ContainsIgnoringCase(Chars(pr.labels[i]), Chars(pattern))

\* C3: a pull request is in highPriority exactly when one of its labels
\* contains one of the five patterns case-insensitively, whatever its reviews,
\* comments and requested reviewers.
C3_PriorityLabelDecides ==
  Categorized =>
    \A i \in 1..Len(prs) :
      IF HasPriorityLabelAsClaimed(prs[i])
        THEN CategoriesOf(prs[i].number) = {"highPriority"}
        ELSE "highPriority" \notin CategoriesOf(prs[i].number)

\* C3 witness: a pull request labelled "URGENT-fix" (after another label), twice
\* approved, with a prolific requested commenter, is in highPriority.
C3_Witness ==
  /\ pc = "categorized"
  /\ prs[1].labels = <<"bug", "URGENT-fix">>
  /\ facts[1].approvalCount = 2
  /\ facts[1].prolificCommentersReRequested # <<>>
  /\ CategoriesOf(prs[1].number) = {"highPriority"}

\* The logins that reviewed the pull request.
Reviewers(pr) == {pr.reviews[i].user : i \in 1..Len(pr.reviews)}

\* The largest submission timestamp among the reviews of login u.
LatestTime(pr, u) ==
  CHOOSE t \in {r.submitted_at : r \in {x \in Range(pr.reviews) : x.user = u}} :
    \A r \in Range(pr.reviews) : r.user = u => r.submitted_at <= t

\* The states of the reviews of u that carry that timestamp.
LatestStates(pr, u) ==
  {r.state : r \in {x \in Range(pr.reviews) : x.user = u /\ x.submitted_at = LatestTime(pr, u)}}

\* C4: getApprovals returns APPROVED reviews of the pull request, one per
\* login at most, each the login's review of largest timestamp; a login whose
\* review of largest timestamp is APPROVED is in the result and one whose
\* review of largest timestamp is not APPROVED is absent, whatever the order
\* of pr.reviews was.
C4_LatestReviewDecides ==
  Categorized =>
    \A i \in 1..Len(fetched) :
      LET pr == fetched[i]
          a == facts[i].approvals
      IN  /\ \A j \in 1..Len(a) :
                /\ a[j] \in Range(pr.reviews)
                /\ a[j].state = "APPROVED"
                /\ a[j].submitted_at = LatestTime(pr, a[j].user)
          /\ \A j, k \in 1..Len(a) : a[j].user = a[k].user => j = k
          /\ \A u \in Reviewers(pr) :
                /\ LatestStates(pr, u) = {"APPROVED"} => \E j \in 1..Len(a) : a[j].user = u
                /\ "APPROVED" \notin LatestStates(pr, u) => \A j \in 1..Len(a) : a[j].user # u

\* C4 witness: alice's later CHANGES_REQUESTED is listed before her earlier
\* APPROVED, and getApprovals returned no review.
C4_Witness ==
  /\ pc = "categorized"
  /\ fetched[1].reviews = <<Review("alice", "CHANGES_REQUESTED", 2),
                            Review("alice", "APPROVED", 1)>>
  /\ facts[1].approvals = <<>>

\* The login has the letters b, o, t in a row.
HasBotInName(cs) ==
  \E i \in 1..(Len(cs) - 2) : cs[i] = "b" /\ cs[i + 1] = "o" /\ cs[i + 2] = "t"

\* The comments the claims call bot comments.
ClaimedBot(c) ==
  c.type = "Bot" \/ HasBotInName(Chars(c.login)) \/ c.login = "gitstream-cm"

\* The comments of both lists, review comments first.
RawComments(pr) == pr.reviewComments \o pr.issueComments

\* The positions in RawComments of the comments that are not bot comments.
HumanPositions(pr) ==
  {j \in 1..Len(RawComments(pr)) : ~ClaimedBot(RawComments(pr)[j])}

\* C5: getAllComments is the review comments followed by the issue comments,
\* in their order, less exactly the comments of type Bot, of a login with
\* "bot" in it, or of gitstream-cm.
C5_HumanCommentsInOrder ==
  \A i \in 1..Len(prs) :
    LET r == getAllComments(prs[i])
        kept == HumanPositions(prs[i])
    IN  /\ Len(r) = Cardinality(kept)
        /\ \A j \in kept :
             r[Cardinality({k \in kept : k <= j})] = RawComments(prs[i])[j]

\* C5 witness: of the review comments of robot and DependaBot and the issue
\* comment of gitstream-cm only DependaBot's is left, and it is a comment to fix.
C5_Witness ==
  /\ pc = "categorized"
  /\ prs[1].reviewComments = <<Comment("robot"), Comment("DependaBot")>>
  /\ prs[1].issueComments = <<Comment("gitstream-cm")>>
  /\ getAllComments(prs[1]) = <<Comment("DependaBot")>>
  /\ facts[1].hasCommentsToFixFlag

\* The number of comments of login u that are not bot comments.
HumanCommentCount(pr, u) ==
  Cardinality({j \in HumanPositions(pr) : RawComments(pr)[j].login = u})

\* The logins getApprovals returned for pull request i.
Approvers(i) == {a.user : a \in Range(facts[i].approvals)}

NoDuplicates(seq) == \A j, k \in 1..Len(seq) : seq[j] = seq[k] => j = k

\* C6: getProlificCommentersWithoutApproval lists, once each, exactly the
\* logins with at least 3 human comments that are not among the approvers and
\* are not the author.
C6_ProlificWithoutApproval ==
  Categorized =>
    \A i \in 1..Len(prs) :
      LET r == facts[i].prolificCommentersWithoutApproval
      IN  /\ NoDuplicates(r)
          /\ Range(r) = {u \in {c.login : c \in Range(RawComments(prs[i]))} :
                           /\ HumanCommentCount(prs[i], u) >= 3
                           /\ u \notin Approvers(i)
                           /\ u # prs[i].user}

\* C6 witness: bob, whose review requested changes, wrote three comments and
\* is the one prolific commenter without approval.
C6_Witness ==
  /\ pc = "categorized"
  /\ prs[1].reviews = <<Review("bob", "CHANGES_REQUESTED", 1)>>
  /\ HumanCommentCount(prs[1], "bob") = 3
  /\ facts[1].prolificCommentersWithoutApproval = <<"bob">>

\* C7: getProlificCommentersReRequested lists exactly the members of
\* getProlificCommentersWithoutApproval that are in pr.requested_reviewers;
\* requested teams add nobody.
C7_ReRequestedSubset ==
  Categorized =>
    \A i \in 1..Len(prs) :
      LET r == facts[i].prolificCommentersReRequested
      IN  /\ NoDuplicates(r)
          /\ Range(r) = {u \in Range(facts[i].prolificCommentersWithoutApproval) :
                           u \in prs[i].requested_reviewers}

\* C7 witness: with a team and bob requested, bob is the re-requested prolific
\* commenter.
C7_Witness ==
  /\ pc = "categorized"
  /\ prs[1].requested_teams # {}
  /\ prs[1].requested_reviewers = {"bob"}
  /\ facts[1].prolificCommentersWithoutApproval = <<"bob">>
  /\ facts[1].prolificCommentersReRequested = <<"bob">>

\* C8: hasCommentsToFix is true exactly when some human comment is by a login
\* that is neither the author nor a requested reviewer.
C8_CommentsToFix ==
  Categorized =>
    \A i \in 1..Len(prs) :
      facts[i].hasCommentsToFixFlag <=>
        \E j \in HumanPositions(prs[i]) :
          /\ RawComments(prs[i])[j].login # prs[i].user
          /\ RawComments(prs[i])[j].login \notin prs[i].requested_reviewers

\* C8 witness: the human comments are by the author and by bob, who is a
\* requested reviewer, and hasCommentsToFix is false.
C8_Witness ==
  /\ pc = "categorized"
  /\ HumanCommentCount(prs[1], "carol") > 0
  /\ HumanCommentCount(prs[1], "bob") > 0
  /\ prs[1].requested_reviewers = {"bob"}
  /\ ~facts[1].hasCommentsToFixFlag

\* The configured review owner is among the approvers of pull request i.
OwnerApproved(i) == reviewOwner # NoOwner /\ reviewOwner \in Approvers(i)

\* C9: a pull request with no high-priority label, at least 2 approvals, no
\* human comment and no approval of the review owner is in needsMerging; and a
\* pull request in needsMerging has at least 2 approvals, no comments to fix
\* and no approval of the review owner.
C9_NeedsMerging ==
  Categorized =>
    \A i \in 1..Len(prs) :
      /\ ( /\ ~HasPriorityLabelAsClaimed(prs[i])
           /\ Len(facts[i].approvals) >= 2
           /\ HumanPositions(prs[i]) = {}
           /\ ~OwnerApproved(i) )
         => CategoriesOf(prs[i].number) = {"needsMerging"}
      /\ "needsMerging" \in CategoriesOf(prs[i].number)
         => /\ Len(facts[i].approvals) >= 2
            /\ ~facts[i].hasCommentsToFixFlag
            /\ ~OwnerApproved(i)

\* C9 witness: the review owner dave has not reviewed, alice and bob approved,
\* nobody commented, and the pull request is in needsMerging.
C9_Witness ==
  /\ pc = "categorized"
  /\ reviewOwner = "dave"
  /\ Approvers(1) = {"alice", "bob"}
  /\ RawComments(prs[1]) = <<>>
  /\ CategoriesOf(prs[1].number) = {"needsMerging"}

\* The bullets of the document that are about pull request n.
BulletsOf(n) ==
  {k \in 1..Len(markdown) : markdown[k].kind = "bullet" /\ markdown[k].pr = n}

\* C10: a pull request with no high-priority label, no re-requested prolific
\* commenter, no comments to fix, at least 2 approvals and the review owner's
\* approval is in no category list, and the document has no bullet for it.
C10_FallThrough ==
  Categorized =>
    \A i \in 1..Len(prs) :
      ( /\ ~HasPriorityLabelAsClaimed(prs[i])
        /\ facts[i].prolificCommentersReRequested = <<>>
        /\ ~facts[i].hasCommentsToFixFlag
        /\ Len(facts[i].approvals) >= 2
        /\ OwnerApproved(i) )
      => /\ CategoriesOf(prs[i].number) = {}
         /\ pc = "rendered" => BulletsOf(prs[i].number) = {}

\* C10 witness: the document for one pull request that alice, the review
\* owner, and bob approved has been rendered: it has its three head lines only.
C10_Witness ==
  /\ pc = "rendered"
  /\ reviewOwner = "alice"
  /\ Approvers(1) = {"alice", "bob"}
  /\ ~facts[1].isHighPriority
  /\ ~facts[1].hasCommentsToFixFlag
  /\ CategoriesOf(prs[1].number) = {}
  /\ Len(markdown) = 3

\* The number of entries of all six category lists that are pull request n.
TotalOccurrences(n) ==
  Occurrences("highPriority", n) + Occurrences("needOneMoreApproval", n)
  + Occurrences("needsProlificCommentersApproval", n) + Occurrences("requiresReview", n)
  + Occurrences("hasCommentsToFix", n) + Occurrences("needsMerging", n)

\* The case the claims call the fall-through: no high-priority label, no
\* re-requested prolific commenter, no comments to fix, at least 2 approvals
\* and an approval of the configured review owner.
IsFallThrough(i) ==
  /\ ~HasPriorityLabelAsClaimed(prs[i])
  /\ facts[i].prolificCommentersReRequested = <<>>
  /\ ~facts[i].hasCommentsToFixFlag
  /\ Len(facts[i].approvals) >= 2
  /\ OwnerApproved(i)

\* C11: after categorizePRs a pull request is in no category list exactly
\* when it is the fall-through case, and otherwise it is one entry of exactly
\* one list; with no review owner configured every pull request is one entry
\* of exactly one list.
C11_ExactlyOneUnlessFallThrough ==
  Categorized =>
    \A i \in 1..Len(prs) :
      /\ TotalOccurrences(prs[i].number) = IF IsFallThrough(i) THEN 0 ELSE 1
      /\ Cardinality(CategoriesOf(prs[i].number)) = IF IsFallThrough(i) THEN 0 ELSE 1
      /\ reviewOwner = NoOwner => TotalOccurrences(prs[i].number) = 1

\* C11 witness: alice, the review owner, and bob approved, and dave, who is
\* not requested, commented: the owner's approval is there but the pull
\* request is not the fall-through case, and it is in one list.
C11_Witness ==
  /\ pc = "categorized"
  /\ reviewOwner = "alice"
  /\ Approvers(1) = {"alice", "bob"}
  /\ ~facts[1].isHighPriority
  /\ facts[1].hasCommentsToFixFlag
  /\ ~IsFallThrough(1)
  /\ TotalOccurrences(prs[1].number) = 1

\* C12: a second call of categorizePRs on the same pull requests, with the
\* same review owner, returns the same categories and computes the same
\* facts (approvals, prolific-commenter lists, comments-to-fix flag) as the
\* first call did.
C12_SameResultTwice ==
  [][(pc = "categorized" /\ pc' = "categorizedTwice")
       => (categories' = categories /\ facts' = facts /\ reviewOwner' = reviewOwner)]_vars

\* C12 witness: bob's later approval was listed before alice's earlier one, so
\* the first call reordered pr.reviews; the second call has run on the
\* reordered list and both approvals are its result, alice's first.
C12_Witness ==
  /\ pc = "categorizedTwice"
  /\ fetched[1].reviews = <<Review("bob", "APPROVED", 2), Review("alice", "APPROVED", 1)>>
  /\ prs[1].reviews # fetched[1].reviews
  /\ facts[1].approvals = <<Review("alice", "APPROVED", 1), Review("bob", "APPROVED", 2)>>
  /\ reviewOwner = NoOwner
  /\ CategoriesOf(prs[1].number) = {"needsMerging"}

\* C13: categorizePRs and the helpers it calls leave every field of every
\* input pull request as it was fetched, the order of pr.reviews included.
C13_InputsUnchanged ==
  Categorized => prs = fetched

\* The position pull request n had in the fetched list.
FetchedPosition(n) == CHOOSE i \in 1..Len(fetched) : fetched[i].number = n

\* C14: after sortPRsByPriority the list is a permutation of the input in
\* which every pull request with a priority label precedes every one
\* without, pull requests with the same flag are in descending order of
\* created_at, and pull requests with the same flag and the same created_at
\* are in their input order.
C14_SortedByPriorityThenNewest ==
  pc = "sorted" =>
    /\ Len(prs) = Len(fetched)
    /\ \A i \in 1..Len(fetched) :
         Cardinality({j \in 1..Len(prs) : prs[j] = fetched[i]}) = 1
    /\ \A i, j \in 1..Len(prs) :
         i < j =>
           LET hi == HasPriorityLabelAsClaimed(prs[i])
               hj == HasPriorityLabelAsClaimed(prs[j])
           IN  /\ hi \/ ~hj
               /\ hi = hj => prs[i].created_at >= prs[j].created_at
               /\ (hi = hj /\ prs[i].created_at = prs[j].created_at)
                    => FetchedPosition(prs[i].number) < FetchedPosition(prs[j].number)

\* C14 witness: fetched were an older plain pull request, an older urgent
\* one and a newer plain one; the sort put the urgent one first, then the
\* newer plain one.
C14_Witness ==
  /\ pc = "sorted"
  /\ Len(fetched) = 3
  /\ ~hasHighPriorityLabel(fetched[1]) /\ fetched[1].created_at = 1
  /\ hasHighPriorityLabel(fetched[2]) /\ fetched[2].created_at = 1
  /\ ~hasHighPriorityLabel(fetched[3]) /\ fetched[3].created_at = 2
  /\ prs = <<fetched[2], fetched[3], fetched[1]>>

\* C15: in the rendered document, of two bullets of the same section the
\* earlier one is of a pull request created no earlier than the later one's.
C15_BulletsNewestFirst ==
  pc = "rendered" =>
    \A k1, k2 \in 1..Len(markdown) :
      ( /\ k1 < k2
        /\ markdown[k1].kind = "bullet" /\ markdown[k2].kind = "bullet"
        /\ markdown[k1].section = markdown[k2].section )
      => PRByNumber(prs, markdown[k1].pr).created_at
           >= PRByNumber(prs, markdown[k2].pr).created_at

\* The positions of the document's lines of a kind.
LinesOfKind(kind) == {k \in 1..Len(markdown) : markdown[k].kind = kind}

\* The positions of the headings of category c.
HeadingsOf(c) == {k \in LinesOfKind("heading") : markdown[k].section = c}

\* C16: the document has the heading of a category exactly when the category
\* has a member, and then once; the lines after the heading are the bullets
\* of the category's members, one each, and the next line is no bullet; so
\* the document has as many bullets as there are categorized pull requests.
C16_HeadingsAndBullets ==
  pc = "rendered" =>
    /\ \A c \in Range(CategoryNames) :
         /\ Cardinality(HeadingsOf(c)) = IF Len(categories[c]) > 0 THEN 1 ELSE 0
         /\ \A h \in HeadingsOf(c) :
              /\ h + Len(categories[c]) + 1 <= Len(markdown)
              /\ \A j \in 1..Len(categories[c]) :
                   /\ markdown[h + j].kind = "bullet"
                   /\ markdown[h + j].section = c
                   /\ markdown[h + j].pr = categories[c][j]
              /\ markdown[h + Len(categories[c]) + 1].kind # "bullet"
    /\ \A k \in LinesOfKind("bullet") :
         \E h \in HeadingsOf(markdown[k].section) :
           h < k /\ k <= h + Len(categories[markdown[k].section])
    /\ \A i \in 1..Len(prs) :
         Cardinality(BulletsOf(prs[i].number)) = Cardinality(CategoriesOf(prs[i].number))
    /\ Cardinality(LinesOfKind("bullet"))
         = Cardinality({i \in 1..Len(prs) : CategoriesOf(prs[i].number) # {}})

\* C16 witness: of two pull requests the first fell through and the second
\* is in requiresReview: the document has one heading and one bullet.
C16_Witness ==
  /\ pc = "rendered"
  /\ Len(prs) = 2
  /\ CategoriesOf(prs[1].number) = {}
  /\ CategoriesOf(prs[2].number) = {"requiresReview"}
  /\ Cardinality(LinesOfKind("heading")) = 1
  /\ Cardinality(LinesOfKind("bullet")) = 1

\* C17: the document has the fallback line, once, exactly when the input list
\* is empty; a non-empty list whose pull requests are all in no category
\* gives the three head lines only: no section and no fallback line.
C17_FallbackIffEmpty ==
  pc = "rendered" =>
    /\ Cardinality(LinesOfKind("fallback")) = IF Len(fetched) = 0 THEN 1 ELSE 0
    /\ ( /\ Len(fetched) > 0
         /\ \A i \in 1..Len(prs) : CategoriesOf(prs[i].number) = {} )
       => /\ LinesOfKind("heading") = {}
          /\ LinesOfKind("bullet") = {}
          /\ LinesOfKind("fallback") = {}

\* C17 witness: two pull requests, both approved by alice, the review owner,
\* and by bob, were rendered: no list has a member, and the document has
\* neither a heading nor the fallback line.
C17_Witness ==
  /\ pc = "rendered"
  /\ Len(fetched) = 2
  /\ reviewOwner = "alice"
  /\ categories = EmptyCategories
  /\ LinesOfKind("heading") = {}
  /\ LinesOfKind("fallback") = {}
  /\ markdown[3].kind = "total" /\ markdown[3].count = 2

\* The pull requests one of whose detail requests threw.
FailedPRs == {f.pr : f \in failed}

\* The numbers of the pull requests of a list, in its order.
NumbersOf(list) == [i \in 1..Len(list) |-> list[i].number]

\* The pull requests of prs the detail loop is done with.
Processed ==
  IF pc = "fetching" THEN {i \in 1..Len(prs) : i < cursor.i}
  ELSE IF pc \in {"ready", "rendered"} THEN 1..Len(fetched)
  ELSE {}

\* The pull requests as the loop left them.
Loaded == IF pc = "fetching" THEN prs ELSE fetched

\* C18: a pull request one of whose three detail requests threw has reviews,
\* reviewComments and issueComments all empty once the loop is done with it,
\* whatever had been fetched for it; the other pull requests, those after it
\* included, have what the API served; the call throws only when the listing
\* request does, never after a detail request threw; and the returned list
\* is every pull request of the listing that is no draft, in its order.
C18_FailedDetailDegrades ==
  /\ pc = "threw" => failed = {}
  /\ \A i \in Processed :
       LET pr == Loaded[i]
       IN  IF pr.number \in FailedPRs
             THEN /\ pr.reviews = <<>>
                  /\ pr.reviewComments = <<>>
                  /\ pr.issueComments = <<>>
             ELSE /\ pr.reviews = ApiPull(pr.number).reviews
                  /\ pr.reviewComments = ApiPull(pr.number).reviewComments
                  /\ pr.issueComments = ApiPull(pr.number).issueComments
  /\ pc \in {"ready", "rendered"} =>
       /\ NumbersOf(fetched) = SelectSeq(NumbersOf(api), LAMBDA n : ~ApiPull(n).draft)
       /\ FailedPRs \subseteq Range(NumbersOf(fetched))

\* C18 witness: the reviews and the review comments of the first pull request
\* were fetched, its issue comments request threw; the call returned both
\* pull requests, the first with nothing, the second with its review.
C18_Witness ==
  /\ pc = "ready"
  /\ Len(fetched) = 2
  /\ failed = {[pr |-> fetched[1].number, request |-> "issueComments"]}
  /\ ApiPull(fetched[1].number).reviews # <<>>
  /\ ApiPull(fetched[1].number).reviewComments # <<>>
  /\ fetched[1].reviews = <<>>
  /\ fetched[1].reviewComments = <<>>
  /\ fetched[1].issueComments = <<>>
  /\ fetched[2].reviews # <<>>

\* The positions in pr.reviews of the reviews of u with u's largest timestamp.
TiedLatest(pr, u) ==
  {k \in 1..Len(pr.reviews) :
     pr.reviews[k].user = u /\ pr.reviews[k].submitted_at = LatestTime(pr, u)}

\* The last of them in the list.
LastListed(pr, u) == CHOOSE k \in TiedLatest(pr, u) : \A j \in TiedLatest(pr, u) : j <= k

\* C19: when several reviews of a user carry the user's largest timestamp,
\* the one listed last in pr.reviews as fetched is the user's current review:
\* the user is in the result of getApprovals exactly when that review is
\* APPROVED, and then it is the review returned.
C19_LastListedWinsTies ==
  Categorized =>
    \A i \in 1..Len(fetched) :
      \A u \in Reviewers(fetched[i]) :
        Cardinality(TiedLatest(fetched[i], u)) >= 2 =>
          LET last == fetched[i].reviews[LastListed(fetched[i], u)]
          IN  /\ u \in Approvers(i) <=> last.state = "APPROVED"
              /\ \A a \in Range(facts[i].approvals) : a.user = u => a = last

\* C19 witness: alice's CHANGES_REQUESTED and her APPROVED carry the same
\* timestamp, the APPROVED is listed last, and alice's approval is returned.
C19_Witness ==
  /\ pc = "categorized"
  /\ fetched[1].reviews = <<Review("alice", "CHANGES_REQUESTED", 2),
                            Review("alice", "APPROVED", 2)>>
  /\ facts[1].approvals = <<Review("alice", "APPROVED", 2)>>

\* The reorderings of a list of n elements.
Reorderings(n) ==
  {f \in [1..n -> 1..n] : \A a, b \in 1..n : f[a] = f[b] => a = b}

\* C20: the category of a pull request is the one categorizePRs gives it when
\* it is the only pull request of the list; categorizePRs of any reordering
\* of the fetched list gives every category the same members; and the
\* members of a category list are in the order they have in the input.
C20_ClassifiedIndependently ==
  pc = "categorized" =>
    /\ \A i \in 1..Len(fetched) :
         LET alone == categorizePRs(<<fetched[i]>>, reviewOwner)
         IN  \A c \in Range(CategoryNames) :
               fetched[i].number \in Range(categories[c])
                 <=> fetched[i].number \in Range(alone[c])
    /\ \A f \in Reorderings(Len(fetched)) :
         LET reordered == [k \in 1..Len(fetched) |-> fetched[f[k]]]
             result == categorizePRs(reordered, reviewOwner)
         IN  \A c \in Range(CategoryNames) :
               /\ Range(result[c]) = Range(categories[c])
               /\ \A j, k \in 1..Len(result[c]) :
                    j < k => \E a, b \in 1..Len(reordered) :
                               /\ a < b
                               /\ reordered[a].number = result[c][j]
                               /\ reordered[b].number = result[c][k]
    /\ \A c \in Range(CategoryNames) :
         \A j, k \in 1..Len(categories[c]) :
           j < k => FetchedPosition(categories[c][j]) < FetchedPosition(categories[c][k])

\* C20 witness: a pull request that requires review, an urgent one and
\* another that requires review were fetched in this order; the two are in
\* requiresReview in their order, the urgent one in highPriority.
C20_Witness ==
  /\ pc = "categorized"
  /\ Len(fetched) = 3
  /\ categories.requiresReview = <<fetched[1].number, fetched[3].number>>
  /\ categories.highPriority = <<fetched[2].number>>

\* The bullets of the document under the heading of category c.
BulletsIn(c) == {k \in LinesOfKind("bullet") : markdown[k].section = c}

====
